---- MODULE Spec2Model ----
(***************************************************************************)
(* Model of dbcollection's CacheManager (src/dbcollection/cache.py): the   *)
(* JSON-file-backed registry of datasets.                                  *)
(*                                                                         *)
(* Python values are modelled as follows.                                  *)
(*   - a path (str) is a sequence of path segments; os.path.join is \o     *)
(*   - a dict whose keys are data (categories, names, tasks) is an         *)
(*     insertion-ordered sequence of <<key, value>> pairs with unique keys *)
(*   - a dict whose keys are fixed field names (the document, its info,    *)
(*     a dataset record) is a TLA+ record; a subscript with a key outside  *)
(*     its DOMAIN is a KeyError                                            *)
(*   - a method is an operator from the state it reads to a result record  *)
(*     [data, file, raised, ret, trace]: the state it leaves, the          *)
(*     exception that escapes it ("none" when it returns), its return      *)
(*     value and the disk effects it performed, in order                   *)
(*                                                                         *)
(* data is the document of the CacheManager instance the calls are made    *)
(* on; peer is the document of a second instance bound to the same file,   *)
(* which acts only in SpecTwo.  inserted and owner record, for each name,  *)
(* the category of its latest upsert that returned and the instance that   *)
(* made it (None and 0 once a removal has popped the name); turn counts    *)
(* the calls of SpecTwo.                                                   *)
(*                                                                         *)
(* The second part models DatasetLoader (src/dbcollection/utils/loader.py),*)
(* the read-only accessor of an HDF5 container.  A container is a function *)
(* from the paths of its datasets to the datasets; a dataset is a record   *)
(* [shape, value] whose value is the sequence of its rows, and positions   *)
(* are counted from 0 as in Python.  loader is the DatasetLoader object    *)
(* (a record of its attributes: an attribute that was never assigned is    *)
(* outside its DOMAIN) and lcall is the latest call made on it.            *)
(***************************************************************************)
EXTENDS Integers, Sequences, FiniteSets, TLC

VARIABLES data, file, last, inserted, peer, owner, turn, loader, lcall

vars == <<data, file, last, inserted, peer, owner, turn, loader, lcall>>

(* ------------------------------ bounds -------------------------------- *)

\* the registry is explored up to this many dataset records at a time
MaxRecords == 2

\* the calls made on two instances that share the file are explored up to
\* this many
MaxTurns == 3

Names == {"m", "n"}
Categories == {"cat", "img"}
Tasks == {"train", "test"}
\* what a caller registers a dataset with: data_dir, cache_dir and cache_files.
\* The two differ in every field, and their cache_files overlap on "train"
\* with different paths.
Registrations ==
  { [data_dir |-> <<"d">>, cache_dir |-> <<"c">>,
     cache_info |-> << <<"train", <<"c", "train.bin">> >> >>],
    [data_dir |-> <<"d2">>, cache_dir |-> <<"c2">>,
     cache_info |-> << <<"train", <<"c2", "train.bin">> >>,
                       <<"test", <<"c2", "test.bin">> >> >>] }
\* what os.remove(path) can do: remove the file, fail with ENOENT, fail otherwise
RemoveOutcomes == {"ok", "ENOENT", "EOTHER"}

None == "None"
NoPath == <<>>

(* --------------------------- python dicts ----------------------------- *)

Keys(d) == {d[i][1] : i \in DOMAIN d}

Has(d, k) == k \in Keys(d)

Get(d, k) == d[CHOOSE i \in DOMAIN d : d[i][1] = k][2]

Put(d, k, v) ==
  IF Has(d, k)
    THEN [i \in DOMAIN d |-> IF d[i][1] = k THEN <<k, v>> ELSE d[i]]
    ELSE Append(d, <<k, v>>)

RECURSIVE Pop(_, _)
Pop(d, k) ==
  IF d = <<>> THEN <<>>
  ELSE IF Head(d)[1] = k THEN Tail(d)
  ELSE <<Head(d)>> \o Pop(Tail(d), k)

RECURSIVE DictUpdate(_, _)
DictUpdate(d, e) ==
  IF e = <<>> THEN d
  ELSE DictUpdate(Put(d, Head(e)[1], Head(e)[2]), Tail(e))

(* ------------------------------ results ------------------------------- *)

Returns(d, f, v, t) == [data |-> d, file |-> f, raised |-> "none", ret |-> v, trace |-> t]

Raises(d, f, e, t) == [data |-> d, file |-> f, raised |-> e, ret |-> None, trace |-> t]

(* ------------------------------- paths -------------------------------- *)

\* os.path.expanduser("~")
expanduser == <<"home", "user">>

join(a, b) == a \o b

setup_paths ==
  [cache_dir |-> expanduser,
   cache_fname |-> join(expanduser, <<".dbcollection.json">>),
   default_cache_dir |-> join(expanduser, <<"dbcollection">>),
   default_data_dir |-> join(expanduser, <<"dbcollection">>)]

empty_data ==
  [info |-> [default_cache_dir |-> setup_paths.default_cache_dir,
             default_data_dir |-> setup_paths.default_data_dir],
   dataset |-> <<>>]

(* -------------------------------- json -------------------------------- *)

\* A JSON text is modelled by its syntax tree: a string <<"str", s>> or an
\* object <<"obj", members>>, members being the <<key, value>> pairs in the
\* order they are written.
JStr(s) == <<"str", s>>

JObj(members) == <<"obj", members>>

\* the keys of a dataset record, in the order update() inserts them
FieldOrder == <<"data_dir", "cache_dir", "cache_files", "cached_files">>

IsDictField(k) == k \in {"cache_files", "cached_files"}

EncodeFiles(cf) == JObj([i \in DOMAIN cf |-> <<cf[i][1], JStr(cf[i][2])>>])

EncodeRecord(rec) ==
  LET ks == SelectSeq(FieldOrder, LAMBDA k : k \in DOMAIN rec)
  IN JObj([i \in DOMAIN ks |->
             <<ks[i], IF IsDictField(ks[i]) THEN EncodeFiles(rec[ks[i]])
                      ELSE JStr(rec[ks[i]])>>])

EncodeDsets(ds) == JObj([i \in DOMAIN ds |-> <<ds[i][1], EncodeRecord(ds[i][2])>>])

\* mutant of EncodeDataset: a category left without datasets is not written
EncodeDataset_skip_empty(cs) ==
  LET full == SelectSeq(cs, LAMBDA c : c[2] # <<>>)
  IN JObj([i \in DOMAIN full |-> <<full[i][1], EncodeDsets(full[i][2])>>])

EncodeDataset(cs) == JObj([i \in DOMAIN cs |-> <<cs[i][1], EncodeDsets(cs[i][2])>>])

json_dump(doc) ==
  JObj(<< <<"info", JObj(<< <<"default_cache_dir", JStr(doc.info.default_cache_dir)>>,
                            <<"default_data_dir", JStr(doc.info.default_data_dir)>> >>)>>,
          <<"dataset", EncodeDataset(doc.dataset)>> >>)

\* json.load builds a dict from an object's members; a repeated key keeps its
\* first position and its last value
DecodeMembers(j) == DictUpdate(<<>>, j[2])

DecodeFiles(j) ==
  LET ms == DecodeMembers(j) IN [i \in DOMAIN ms |-> <<ms[i][1], ms[i][2][2]>>]

DecodeRecord(j) ==
  LET ms == DecodeMembers(j)
  IN [k \in Keys(ms) |-> IF IsDictField(k) THEN DecodeFiles(Get(ms, k)) ELSE Get(ms, k)[2]]

DecodeDsets(j) ==
  LET ms == DecodeMembers(j) IN [i \in DOMAIN ms |-> <<ms[i][1], DecodeRecord(ms[i][2])>>]

DecodeDataset(j) ==
  LET ms == DecodeMembers(j) IN [i \in DOMAIN ms |-> <<ms[i][1], DecodeDsets(ms[i][2])>>]

json_load(j) ==
  LET ms == DecodeMembers(j)
      info == DecodeMembers(Get(ms, "info"))
  IN [info |-> [default_cache_dir |-> Get(info, "default_cache_dir")[2],
                default_data_dir |-> Get(info, "default_data_dir")[2]],
      dataset |-> DecodeDataset(Get(ms, "dataset"))]

(* ------------------------------ the file ------------------------------ *)

NoFile == [exists |-> FALSE, content |-> JObj(<<>>)]

Event(e, p, r) == [ev |-> e, path |-> p, res |-> r]

read_data_cache_file(f) == json_load(f.content)

read_data_cache(f) == IF f.exists THEN read_data_cache_file(f) ELSE empty_data

\* open(filename, 'w') truncates (or creates) the file, json.dump fills it
write_data_cache(d, f) ==
  Returns(d, [exists |-> TRUE, content |-> json_dump(d)], None,
          <<Event("write", setup_paths.cache_fname, "ok")>>)

create_cache_file_disk(f) == write_data_cache(empty_data, f)

\* CacheManager(): the document a new instance holds, and the file it leaves
construct(f) ==
  LET f1 == IF ~f.exists THEN create_cache_file_disk(f).file ELSE f
  IN Returns(read_data_cache(f1), f1, None,
             IF ~f.exists THEN create_cache_file_disk(f).trace ELSE <<>>)

(* ------------------------------ lookups ------------------------------- *)

\* the first category, in the dict's iteration order, that holds name
RECURSIVE ScanCategories(_, _)
ScanCategories(cs, name) ==
  IF cs = <<>> THEN None
  ELSE IF Has(Head(cs)[2], name) THEN Head(cs)[1]
  ELSE ScanCategories(Tail(cs), name)

get_category(d, name) == ScanCategories(d.dataset, name)

\* self.data['dataset'][self.get_category(name)][name][field], with the
\* KeyError of whichever subscript fails first
get_data_from_field(d, f, name, field) ==
  LET c == get_category(d, name)
  IN IF ~Has(d.dataset, c) THEN Raises(d, f, "KeyError", <<>>)
     ELSE IF ~Has(Get(d.dataset, c), name) THEN Raises(d, f, "KeyError", <<>>)
     ELSE IF field \notin DOMAIN Get(Get(d.dataset, c), name)
       THEN Raises(d, f, "KeyError", <<>>)
     ELSE Returns(d, f, Get(Get(d.dataset, c), name)[field], <<>>)

\* mutant of exists_dataset: the name is looked for among the categories, as
\* check_dataset_name does
exists_dataset_among_categories(d, f, name) == Returns(d, f, Has(d.dataset, name), <<>>)

\* name in self.data['dataset'][self.get_category(name)], False on KeyError
exists_dataset(d, f, name) ==
  LET c == get_category(d, name)
  IN IF ~Has(d.dataset, c) THEN Returns(d, f, FALSE, <<>>)
     ELSE Returns(d, f, Has(Get(d.dataset, c), name), <<>>)

\* mutant of exists: the record is read under the key add_data uses
exists_cached_files(d, f, name, task) ==
  LET c == get_category(d, name)
  IN IF ~Has(d.dataset, c) THEN Returns(d, f, FALSE, <<>>)
     ELSE IF ~Has(Get(d.dataset, c), name) THEN Returns(d, f, FALSE, <<>>)
     ELSE IF "cached_files" \notin DOMAIN Get(Get(d.dataset, c), name)
       THEN Returns(d, f, FALSE, <<>>)
     ELSE Returns(d, f, Has(Get(Get(d.dataset, c), name).cached_files, task), <<>>)

\* task in self.data['dataset'][self.get_category(name)][name]['cache_files'],
\* False on KeyError
exists(d, f, name, task) ==
  LET c == get_category(d, name)
  IN IF ~Has(d.dataset, c) THEN Returns(d, f, FALSE, <<>>)
     ELSE IF ~Has(Get(d.dataset, c), name) THEN Returns(d, f, FALSE, <<>>)
     ELSE IF "cache_files" \notin DOMAIN Get(Get(d.dataset, c), name)
       THEN Returns(d, f, FALSE, <<>>)
     ELSE Returns(d, f, Has(Get(Get(d.dataset, c), name).cache_files, task), <<>>)

\* mutant of get_dataset_storage_paths: the default paths leave the name out
get_dataset_storage_paths_noname(d, f, name) ==
  IF exists_dataset(d, f, name).ret
    THEN Returns(d, f, [cache_dir |-> get_data_from_field(d, f, name, "cache_dir").ret,
                        data_dir |-> get_data_from_field(d, f, name, "data_dir").ret], <<>>)
    ELSE Returns(d, f,
                 [cache_dir |-> join(setup_paths.default_cache_dir, <<"cache">>),
                  data_dir |-> join(setup_paths.default_data_dir, <<"data">>)],
                 <<>>)

get_dataset_storage_paths(d, f, name) ==
  IF exists_dataset(d, f, name).ret
    THEN LET c == get_data_from_field(d, f, name, "cache_dir")
             dd == get_data_from_field(d, f, name, "data_dir")
         IN IF c.raised # "none" THEN c
            ELSE IF dd.raised # "none" THEN dd
            ELSE Returns(d, f, [cache_dir |-> c.ret, data_dir |-> dd.ret], <<>>)
    ELSE Returns(d, f,
                 [cache_dir |-> join(join(setup_paths.default_cache_dir, <<name>>), <<"cache">>),
                  data_dir |-> join(join(setup_paths.default_data_dir, <<name>>), <<"data">>)],
                 <<>>)

\* the argument of the Exception get_dataset_data raises
DoesNotExist(name) == <<"Dataset ", name, " does not exist in the cache file.">>

\* mutant of get_dataset_data: the KeyError is not translated
get_dataset_data_keyerror(d, f, name) ==
  LET c == get_category(d, name)
  IN IF ~Has(d.dataset, c) THEN Raises(d, f, "KeyError", <<>>)
     ELSE IF ~Has(Get(d.dataset, c), name) THEN Raises(d, f, "KeyError", <<>>)
     ELSE Returns(d, f, Get(Get(d.dataset, c), name), <<>>)

get_dataset_data(d, f, name) ==
  LET c == get_category(d, name)
      err == [Raises(d, f, "Exception", <<>>) EXCEPT !.ret = DoesNotExist(name)]
  IN IF ~Has(d.dataset, c) THEN err
     ELSE IF ~Has(Get(d.dataset, c), name) THEN err
     ELSE Returns(d, f, Get(Get(d.dataset, c), name), <<>>)

get_cache_path(d, f, name, task) ==
  LET cache_data == get_dataset_data(d, f, name)
  IN IF cache_data.raised # "none" THEN cache_data
     ELSE IF "cache_files" \notin DOMAIN cache_data.ret THEN Raises(d, f, "KeyError", <<>>)
     ELSE IF ~Has(cache_data.ret.cache_files, task) THEN Raises(d, f, "KeyError", <<>>)
     ELSE Returns(d, f, Get(cache_data.ret.cache_files, task), <<>>)

(* ------------------------------ mutators ------------------------------ *)

\* mutant of add_data: the category is emptied whether or not it exists
add_data_reset_category(d, f, category, name, new_info) ==
  Returns([d EXCEPT !.dataset = Put(d.dataset, category, <<<<name, new_info>>>>)],
          f, None, <<>>)

\* the document add_data leaves in self.data, or the KeyError it raises
\* before it has changed anything
add_data(d, f, category, name, new_info) ==
  LET store(ds, info) ==
        Returns([d EXCEPT !.dataset = Put(ds, category, Put(Get(ds, category), name, info))],
                f, None, <<>>)
  IN IF Has(d.dataset, category)
       THEN IF Has(Get(d.dataset, category), name)
              THEN LET old_info == Get(Get(d.dataset, category), name)
                   IN IF "cached_files" \notin DOMAIN old_info
                        THEN Raises(d, f, "KeyError", <<>>)
                      ELSE IF "cached_files" \notin DOMAIN new_info
                        THEN Raises(d, f, "KeyError", <<>>)
                      ELSE LET cache_files ==
                                 DictUpdate(old_info.cached_files, new_info.cached_files)
                           IN store(d.dataset,
                                    ("cached_files" :> cache_files) @@ new_info)
              ELSE store(d.dataset, new_info)
       ELSE store(Put(d.dataset, category, <<>>), new_info)

\* mutant of update: the document is changed and the file is not rewritten
update_nowrite(d, f, name, category, data_dir, cache_dir, cache_info) ==
  add_data(d, f, category, name,
           [data_dir |-> data_dir, cache_dir |-> cache_dir, cache_files |-> cache_info])

\* mutant of update: the two directories are stored under each other's key
update_swapped(d, f, name, category, data_dir, cache_dir, cache_info) ==
  LET new_info_dict == [data_dir |-> cache_dir, cache_dir |-> data_dir,
                        cache_files |-> cache_info]
      a == add_data(d, f, category, name, new_info_dict)
  IN IF a.raised # "none" THEN a
     ELSE write_data_cache(a.data, a.file)

update(d, f, name, category, data_dir, cache_dir, cache_info) ==
  LET new_info_dict == [data_dir |-> data_dir, cache_dir |-> cache_dir,
                        cache_files |-> cache_info]
      a == add_data(d, f, category, name, new_info_dict)
  IN IF a.raised # "none" THEN a
     ELSE write_data_cache(a.data, a.file)

\* os.remove(path) with the outcome the filesystem gives it; ENOENT is swallowed
\* by both callers
os_remove(path, outcome) == Event("os.remove", path, outcome)

\* mutant of delete_dataset_cache: the record is popped and the file written
\* before the cache directory is removed
delete_dataset_cache_pop_first(d, f, name, outcome) ==
  LET cat == get_category(d, name)
  IN IF ~Has(d.dataset, cat) THEN Raises(d, f, "KeyError", <<>>)
     ELSE IF ~Has(Get(d.dataset, cat), name) THEN Raises(d, f, "KeyError", <<>>)
     ELSE LET cache_dir_path == Get(Get(d.dataset, cat), name).cache_dir
              rm == os_remove(cache_dir_path, outcome)
              d1 == [d EXCEPT !.dataset =
                       Put(d.dataset, cat, Pop(Get(d.dataset, cat), name))]
              w == write_data_cache(d1, f)
              t == <<Event("pop", <<cat, name>>, "ok")>> \o w.trace \o <<rm>>
          IN IF outcome = "EOTHER" THEN Raises(w.data, w.file, "OSError", t)
             ELSE Returns(w.data, w.file, None, t)

\* mutant of delete_dataset_cache: every OSError of os.remove is swallowed
delete_dataset_cache_swallow_all(d, f, name, outcome) ==
  LET cat == get_category(d, name)
  IN IF ~Has(d.dataset, cat) THEN Raises(d, f, "KeyError", <<>>)
     ELSE IF ~Has(Get(d.dataset, cat), name) THEN Raises(d, f, "KeyError", <<>>)
     ELSE LET cache_dir_path == Get(Get(d.dataset, cat), name).cache_dir
              rm == os_remove(cache_dir_path, outcome)
              d1 == [d EXCEPT !.dataset =
                       Put(d.dataset, cat, Pop(Get(d.dataset, cat), name))]
              w == write_data_cache(d1, f)
          IN Returns(w.data, w.file, None,
                     <<rm, Event("pop", <<cat, name>>, "ok")>> \o w.trace)

delete_dataset_cache(d, f, name, outcome) ==
  LET cat == get_category(d, name)
  IN IF ~Has(d.dataset, cat) THEN Raises(d, f, "KeyError", <<>>)
     ELSE IF ~Has(Get(d.dataset, cat), name) THEN Raises(d, f, "KeyError", <<>>)
     ELSE IF "cache_dir" \notin DOMAIN Get(Get(d.dataset, cat), name)
       THEN Raises(d, f, "KeyError", <<>>)
     ELSE LET cache_dir_path == Get(Get(d.dataset, cat), name).cache_dir
              rm == os_remove(cache_dir_path, outcome)
          IN IF outcome = "EOTHER" THEN Raises(d, f, "OSError", <<rm>>)
             ELSE LET d1 == [d EXCEPT !.dataset =
                               Put(d.dataset, cat, Pop(Get(d.dataset, cat), name))]
                      w == write_data_cache(d1, f)
                  IN Returns(w.data, w.file, None,
                             <<rm, Event("pop", <<cat, name>>, "ok")>> \o w.trace)

\* mutant of delete_dataset: the storage paths are resolved after the record
\* has been removed
delete_dataset_late_paths(d, f, name, delete_data, cache_outcome, data_outcome) ==
  LET c == delete_dataset_cache(d, f, name, cache_outcome)
      dset_paths == get_dataset_storage_paths(c.data, c.file, name)
  IN IF c.raised # "none" THEN c
     ELSE IF delete_data
       THEN LET rm == os_remove(dset_paths.ret.data_dir, data_outcome)
            IN IF data_outcome = "EOTHER"
                 THEN Raises(c.data, c.file, "OSError", Append(c.trace, rm))
                 ELSE Returns(c.data, c.file, None, Append(c.trace, rm))
     ELSE c

delete_dataset(d, f, name, delete_data, cache_outcome, data_outcome) ==
  LET dset_paths == get_dataset_storage_paths(d, f, name)
      c == delete_dataset_cache(d, f, name, cache_outcome)
  IN IF dset_paths.raised # "none" THEN dset_paths
     ELSE IF c.raised # "none" THEN c
     ELSE IF delete_data
       THEN LET rm == os_remove(dset_paths.ret.data_dir, data_outcome)
            IN IF data_outcome = "EOTHER"
                 THEN Raises(c.data, c.file, "OSError", Append(c.trace, rm))
                 ELSE Returns(c.data, c.file, None, Append(c.trace, rm))
     ELSE c

(* ------------------------- the HDF5 container ------------------------- *)

\* the accessor is called with positions 0..MaxIdx and with lists of up to
\* MaxLen positions
MaxIdx == 2
MaxLen == 2

\* a one-dimensional and a two-dimensional dataset
Vector(rows) == [shape |-> <<Len(rows)>>, value |-> rows]
Matrix(rows, width) == [shape |-> <<Len(rows), width>>, value |-> rows]

\* the character codes of the field names the containers store
AsciiOf ==
  [s \in {"file", "label"} |->
     IF s = "file" THEN <<102, 105, 108, 101>> ELSE <<108, 97, 98, 101, 108>>]

RECURSIVE Zeros(_)
Zeros(n) == IF n <= 0 THEN <<>> ELSE <<0>> \o Zeros(n - 1)

\* a field name as the container stores it: its character codes, padded with
\* zeros to the width of the longest name
StoredWidth == CHOOSE w \in {Len(AsciiOf[s]) : s \in DOMAIN AsciiOf} :
                 \A s \in DOMAIN AsciiOf : Len(AsciiOf[s]) <= w
StoredName(s) == AsciiOf[s] \o Zeros(StoredWidth - Len(AsciiOf[s]))
StoredNames(names) ==
  Matrix([k \in DOMAIN names |-> StoredName(names[k])], StoredWidth)

\* dbcollection.utils.string_ascii: the text of a row of character codes
ascii_to_str(codes) == CHOOSE s \in DOMAIN AsciiOf : AsciiOf[s] = codes

\* dbcollection.utils.string_ascii: each row of a two-dimensional array of
\* character codes, without its padding, as text
convert_ascii_to_str(value) ==
  [k \in DOMAIN value |-> ascii_to_str(SelectSeq(value[k], LAMBDA x : x > 0))]

\* the fields of a set: two data fields, the id vectors of its objects (one id
\* per composite field) and the names of the composite fields
SetOf(files, labels, ids) ==
  [f \in {"file", "label", "object_ids", "object_fields"} |->
     CASE f = "file" -> Vector(files)
       [] f = "label" -> Vector(labels)
       [] f = "object_ids" -> Matrix(ids, 2)
       [] OTHER -> StoredNames(<<"file", "label">>)]

TrainSet == SetOf(<<"f0", "f1", "f2">>, <<"cat", "dog">>,
                  << <<0, 1>>, <<1, 0>>, <<2, 1>> >>)
\* the second object of the test set has a label id past the end of its labels
TestSet == SetOf(<<"g0", "g1">>, <<"dog", "cat">>, << <<1, 0>>, <<0, 2>> >>)

\* the datasets of the sets, under the group at prefix
Place(prefix, sets) ==
  [p \in {prefix \o <<s, f>> : s \in DOMAIN sets, f \in DOMAIN TrainSet} |->
     sets[p[Len(prefix) + 1]][p[Len(prefix) + 2]]]

BothSets == [s \in {"train", "test"} |-> IF s = "train" THEN TrainSet ELSE TestSet]
OnlyTest == [s \in {"test"} |-> TestSet]

\* the files h5py.File can be asked to open, by name: the sets under the
\* group "default" and linked at the top level, the sets under "default"
\* only, the same without a train set, the sets at the top level only, and no
\* file
ContainerNames == {"linked.h5", "default.h5", "notrain.h5", "flat.h5", "missing.h5"}
CachePaths == {<<"c", n>> : n \in ContainerNames}

Disk(cache_path) ==
  LET n == cache_path[Len(cache_path)]
  IN CASE n = "linked.h5" ->
            [exists |-> TRUE,
             content |-> Place(<<"default">>, BothSets) @@ Place(<<>>, BothSets)]
       [] n = "default.h5" ->
            [exists |-> TRUE, content |-> Place(<<"default">>, BothSets)]
       [] n = "notrain.h5" ->
            [exists |-> TRUE,
             content |-> Place(<<"default">>, OnlyTest) @@ Place(<<>>, OnlyTest)]
       [] n = "flat.h5" -> [exists |-> TRUE, content |-> Place(<<>>, BothSets)]
       [] OTHER -> [exists |-> FALSE, content |-> <<>>]

\* how a call on the container or on the accessor ends
LReturns(v) == [raised |-> "none", ret |-> v]
LRaises(e) == [raised |-> e, ret |-> None]

\* h5py.File(path, 'r')
h5py_File(cache_path) ==
  IF Disk(cache_path).exists THEN LReturns(Disk(cache_path).content)
  ELSE LRaises("OSError")

\* the names under the group at prefix
h5_keys(c, prefix) ==
  {p[Len(prefix) + 1] :
     p \in {q \in DOMAIN c : /\ Len(q) > Len(prefix)
                             /\ SubSeq(q, 1, Len(prefix)) = prefix}}

\* file[path].keys() for the path of a group
h5_group(c, path) ==
  IF path = <<>> \/ h5_keys(c, path) # {} THEN LReturns(h5_keys(c, path))
  ELSE LRaises("KeyError")

\* file[path] for the path of a dataset
h5_dataset(c, path) == IF path \in DOMAIN c THEN LReturns(c[path]) ELSE LRaises("KeyError")

\* a Python index argument: None, an int or a list of ints
PyNone == [kind |-> "None"]
PyInt(i) == [kind |-> "int", int |-> i]
PyList(l) == [kind |-> "list", items |-> l]

Increasing(l) == \A k \in 1..(Len(l) - 1) : l[k] < l[k + 1]

\* dataset[idx] as h5py 2.x does it (the release that has Dataset.value): a
\* position selects a row; a list selects its rows and must be in increasing
\* order; a position past the end is refused
h5_getitem(ds, idx) ==
  LET n == ds.shape[1]
  IN IF idx.kind = "int"
       THEN IF idx.int \in 0..(n - 1) THEN LReturns(ds.value[idx.int + 1])
            ELSE LRaises("ValueError")
     ELSE IF ~Increasing(idx.items) THEN LRaises("TypeError")
     ELSE IF \E k \in DOMAIN idx.items : idx.items[k] \notin 0..(n - 1)
       THEN LRaises("ValueError")
     ELSE LReturns([k \in DOMAIN idx.items |-> ds.value[idx.items[k] + 1]])

\* file[path][idx]
h5_read(c, path, idx) ==
  LET d == h5_dataset(c, path)
  IN IF d.raised # "none" THEN d ELSE h5_getitem(d.ret, idx)

(* ---------------------------- DatasetLoader --------------------------- *)

\* no accessor has been constructed yet
NoLoader == [constructed |-> FALSE]

\* DatasetLoader.__init__: the accessor it constructs, or the exception that
\* escapes it.  self.sets holds the names at the top level of the file, while
\* object_fields is read under the group "default".
loader_init(name, task, data_dir, cache_path) ==
  LET f == h5py_File(cache_path)
      self == [name |-> name, task |-> task, data_dir |-> data_dir,
               cache_path |-> cache_path, file |-> f.ret, root_path |-> <<"default">>,
               sets |-> h5_keys(f.ret, <<>>)]
      d == h5_dataset(self.file, self.root_path \o <<"train", "object_fields">>)
  IN IF f.raised # "none" THEN [self |-> NoLoader, raised |-> f.raised]
     ELSE IF "train" \in self.sets
       THEN IF d.raised # "none" THEN [self |-> NoLoader, raised |-> d.raised]
            ELSE [self |-> [object_fields |-> convert_ascii_to_str(d.ret.value)] @@ self,
                  raised |-> "none"]
     ELSE [self |-> self, raised |-> "none"]

get(self, set_name, field_name, idx) ==
  LET field_path == self.root_path \o <<set_name, field_name>>
      d == h5_dataset(self.file, field_path)
  IN IF idx.kind = "None"
       THEN IF d.raised # "none" THEN d ELSE LReturns(d.ret.value)
     ELSE h5_read(self.file, field_path, idx)

\* the first exception among the results of a loop, "none" if there is none
RECURSIVE FirstRaised(_)
FirstRaised(rs) ==
  IF rs = <<>> THEN "none"
  ELSE IF Head(rs).raised # "none" THEN Head(rs).raised
  ELSE FirstRaised(Tail(rs))

object_data_by_position(self, dir_path, field_path, fields, idx_) ==
  LET ids == h5_read(self.file, field_path, PyInt(idx_))
      vals == [i \in DOMAIN fields |->
                 h5_read(self.file, dir_path \o <<fields[i]>>, PyInt(idx_))]
  IN IF ids.raised # "none" THEN ids
     ELSE IF FirstRaised(vals) # "none" THEN LRaises(FirstRaised(vals))
     ELSE LReturns([i \in DOMAIN vals |-> vals[i].ret])

\* the body of the loop of object over idx: the values of the fields of the
\* object at idx_
object_data(self, dir_path, field_path, fields, idx_) ==
  LET ids == h5_read(self.file, field_path, PyInt(idx_))
      vals == [i \in DOMAIN fields |->
                 h5_read(self.file, dir_path \o <<fields[i]>>, PyInt(ids.ret[i]))]
  IN IF ids.raised # "none" THEN ids
     ELSE IF FirstRaised(vals) # "none" THEN LRaises(FirstRaised(vals))
     ELSE LReturns([i \in DOMAIN vals |-> vals[i].ret])

object_never_unwraps(self, set_name, idx, is_value) ==
  LET dir_path == self.root_path \o <<set_name>>
      field_path == dir_path \o <<"object_ids">>
      idxs == IF idx.kind # "list" THEN <<idx.int>> ELSE idx.items
      output == [n \in DOMAIN idxs |->
                   object_data(self, dir_path, field_path, self.object_fields, idxs[n])]
  IN IF ~is_value THEN h5_read(self.file, field_path, idx)
     ELSE IF "object_fields" \notin DOMAIN self THEN LRaises("AttributeError")
     ELSE IF FirstRaised(output) # "none" THEN LRaises(FirstRaised(output))
     ELSE LReturns([n \in DOMAIN output |-> output[n].ret])

object(self, set_name, idx, is_value) ==
  LET dir_path == self.root_path \o <<set_name>>
      field_path == dir_path \o <<"object_ids">>
      idxs == IF idx.kind # "list" THEN <<idx.int>> ELSE idx.items
      output == [n \in DOMAIN idxs |->
                   object_data(self, dir_path, field_path, self.object_fields, idxs[n])]
  IN IF ~is_value THEN h5_read(self.file, field_path, idx)
     ELSE IF "object_fields" \notin DOMAIN self THEN LRaises("AttributeError")
     ELSE IF FirstRaised(output) # "none" THEN LRaises(FirstRaised(output))
     ELSE IF Len(idxs) = 1 THEN LReturns(output[1].ret)
     ELSE LReturns([n \in DOMAIN output |-> output[n].ret])

size(self, set_name, field_name, full) ==
  LET field_path ==
        self.root_path \o <<set_name, IF field_name = None THEN "object_ids" ELSE field_name>>
      d == h5_dataset(self.file, field_path)
  IN IF d.raised # "none" THEN d
     ELSE IF full THEN LReturns(d.ret.shape)
     ELSE LReturns(d.ret.shape[1])

list(self, set_name) == h5_group(self.file, self.root_path \o <<set_name>>)

\* the position, from 0, of field_name in fields
index(fields, field_name) ==
  (CHOOSE k \in DOMAIN fields :
     /\ fields[k] = field_name
     /\ \A j \in 1..(k - 1) : fields[j] # field_name) - 1

object_field_id(self, field_name) ==
  IF "object_fields" \notin DOMAIN self THEN LRaises("AttributeError")
  ELSE IF \E k \in DOMAIN self.object_fields : self.object_fields[k] = field_name
    THEN LReturns(index(self.object_fields, field_name))
  ELSE LRaises("ValueError")

\* the arguments of a call on the accessor, and the record of the call
NoLArgs == [cache_path |-> NoPath, set_name |-> None, field_name |-> None,
            idx |-> PyNone, is_value |-> FALSE, full |-> FALSE]
NoLCall == [op |-> "none", args |-> NoLArgs, raised |-> "none", ret |-> None]

(* ------------------------------ the calls ----------------------------- *)

NoArgs == [name |-> None, category |-> None, task |-> None, data_dir |-> NoPath,
           cache_dir |-> NoPath, cache_info |-> <<>>, delete_data |-> FALSE]

\* the record of a call: what was called with what, on which state, and how
\* it ended
Call(op, args, r) ==
  [op |-> op, inst |-> 1, args |-> args, raised |-> r.raised, ret |-> r.ret,
   trace |-> r.trace, pre_data |-> data, pre_file |-> file]

Popped(r) == \E i \in DOMAIN r.trace : r.trace[i].ev = "pop"

Init ==
  /\ data = construct(NoFile).data
  /\ file = construct(NoFile).file
  /\ last = [op |-> "__init__", inst |-> 1, args |-> NoArgs, raised |-> "none",
             ret |-> None, trace |-> construct(NoFile).trace, pre_data |-> empty_data,
             pre_file |-> NoFile]
  /\ inserted = [n \in Names |-> None]
  /\ peer = construct(construct(NoFile).file).data
  /\ owner = [n \in Names |-> 0]
  /\ turn = 0
  /\ loader = NoLoader
  /\ lcall = NoLCall

RECURSIVE NumRecords(_)
NumRecords(cs) == IF cs = <<>> THEN 0 ELSE Len(Head(cs)[2]) + NumRecords(Tail(cs))

Apply(op, args, r) ==
  /\ NumRecords(r.data.dataset) <= MaxRecords
  /\ data' = r.data
  /\ file' = r.file
  /\ last' = Call(op, args, r)
  /\ UNCHANGED <<peer, turn, loader, lcall>>

\* a new process constructs its CacheManager on the file as it is
Construct ==
  /\ Apply("__init__", NoArgs, construct(file))
  /\ UNCHANGED <<inserted, owner>>

Update ==
  \E name \in Names, category \in Categories, reg \in Registrations :
    LET r == update(data, file, name, category, reg.data_dir, reg.cache_dir, reg.cache_info)
    IN /\ Apply("update",
                [NoArgs EXCEPT !.name = name, !.category = category,
                               !.data_dir = reg.data_dir, !.cache_dir = reg.cache_dir,
                               !.cache_info = reg.cache_info], r)
       /\ inserted' = IF r.raised = "none" THEN [inserted EXCEPT ![name] = category]
                      ELSE inserted
       /\ owner' = IF r.raised = "none" THEN [owner EXCEPT ![name] = 1] ELSE owner

DeleteDataset ==
  \E name \in Names, delete_data \in BOOLEAN, cache_outcome \in RemoveOutcomes :
  \E data_outcome \in (IF delete_data /\ cache_outcome # "EOTHER" THEN RemoveOutcomes
                        ELSE {"ok"}) :
    LET r == delete_dataset(data, file, name, delete_data, cache_outcome, data_outcome)
    IN /\ Apply("delete_dataset",
                [NoArgs EXCEPT !.name = name, !.delete_data = delete_data], r)
       /\ inserted' = IF Popped(r) THEN [inserted EXCEPT ![name] = None] ELSE inserted
       /\ owner' = IF Popped(r) THEN [owner EXCEPT ![name] = 0] ELSE owner

GetCategory ==
  \E name \in Names :
    /\ Apply("get_category", [NoArgs EXCEPT !.name = name],
             Returns(data, file, get_category(data, name), <<>>))
    /\ UNCHANGED <<inserted, owner>>

ExistsDataset ==
  \E name \in Names :
    /\ Apply("exists_dataset", [NoArgs EXCEPT !.name = name],
             exists_dataset(data, file, name))
    /\ UNCHANGED <<inserted, owner>>

Exists ==
  \E name \in Names, task \in Tasks :
    /\ Apply("exists", [NoArgs EXCEPT !.name = name, !.task = task],
             exists(data, file, name, task))
    /\ UNCHANGED <<inserted, owner>>

GetDatasetStoragePaths ==
  \E name \in Names :
    /\ Apply("get_dataset_storage_paths", [NoArgs EXCEPT !.name = name],
             get_dataset_storage_paths(data, file, name))
    /\ UNCHANGED <<inserted, owner>>

GetDatasetData ==
  \E name \in Names :
    /\ Apply("get_dataset_data", [NoArgs EXCEPT !.name = name],
             get_dataset_data(data, file, name))
    /\ UNCHANGED <<inserted, owner>>

GetCachePath ==
  \E name \in Names, task \in Tasks :
    /\ Apply("get_cache_path", [NoArgs EXCEPT !.name = name, !.task = task],
             get_cache_path(data, file, name, task))
    /\ UNCHANGED <<inserted, owner>>

\* load(): read_data_cache() called on the instance
ReadDataCache ==
  /\ Apply("read_data_cache", NoArgs, Returns(data, file, read_data_cache(file), <<>>))
  /\ UNCHANGED <<inserted, owner>>

\* persist(load()): write_data_cache(read_data_cache())
PersistLoad ==
  /\ Apply("persist_load", NoArgs,
           LET doc == read_data_cache(file)
               w == write_data_cache(doc, file)
           IN Returns(data, w.file, doc, w.trace))
  /\ UNCHANGED <<inserted, owner>>

\* the user deletes ~/.dbcollection.json behind the program's back
ExternalDelete ==
  /\ file.exists
  /\ file' = NoFile
  /\ last' = [op |-> "external_delete", inst |-> 0, args |-> NoArgs, raised |-> "none",
              ret |-> None, trace |-> <<>>, pre_data |-> data, pre_file |-> file]
  /\ UNCHANGED <<data, inserted, peer, owner, turn, loader, lcall>>

Next ==
  \/ Construct
  \/ Update
  \/ DeleteDataset
  \/ GetCategory
  \/ ExistsDataset
  \/ Exists
  \/ GetDatasetStoragePaths
  \/ GetDatasetData
  \/ GetCachePath
  \/ ReadDataCache
  \/ PersistLoad

Spec == Init /\ [][Next]_vars

NextEnv == Next \/ ExternalDelete

SpecEnv == Init /\ [][NextEnv]_vars

(* ---------------------- a second instance, same file ------------------ *)

Instances == {1, 2}

\* the document instance i holds
DocOf(i) == IF i = 1 THEN data ELSE peer

\* a call on instance i: it runs on that instance's document and on the shared
\* file, one call at a time
InstApply(i, op, args, r) ==
  /\ turn < MaxTurns
  /\ turn' = turn + 1
  /\ NumRecords(r.data.dataset) <= MaxRecords
  /\ data' = IF i = 1 THEN r.data ELSE data
  /\ peer' = IF i = 2 THEN r.data ELSE peer
  /\ file' = r.file
  /\ last' = [Call(op, args, r) EXCEPT !.inst = i, !.pre_data = DocOf(i)]
  /\ UNCHANGED <<loader, lcall>>

InstConstruct ==
  \E i \in Instances :
    /\ InstApply(i, "__init__", NoArgs, construct(file))
    /\ UNCHANGED <<inserted, owner>>

InstUpdate ==
  \E i \in Instances, name \in Names, category \in Categories, reg \in Registrations :
    LET r == update(DocOf(i), file, name, category, reg.data_dir, reg.cache_dir,
                    reg.cache_info)
    IN /\ InstApply(i, "update",
                    [NoArgs EXCEPT !.name = name, !.category = category,
                                   !.data_dir = reg.data_dir, !.cache_dir = reg.cache_dir,
                                   !.cache_info = reg.cache_info], r)
       /\ inserted' = IF r.raised = "none" THEN [inserted EXCEPT ![name] = category]
                      ELSE inserted
       /\ owner' = IF r.raised = "none" THEN [owner EXCEPT ![name] = i] ELSE owner

InstDeleteDataset ==
  \E i \in Instances, name \in Names, delete_data \in BOOLEAN,
     cache_outcome \in RemoveOutcomes :
  \E data_outcome \in (IF delete_data /\ cache_outcome # "EOTHER" THEN RemoveOutcomes
                        ELSE {"ok"}) :
    LET r == delete_dataset(DocOf(i), file, name, delete_data, cache_outcome, data_outcome)
    IN /\ InstApply(i, "delete_dataset",
                    [NoArgs EXCEPT !.name = name, !.delete_data = delete_data], r)
       /\ inserted' = IF Popped(r) THEN [inserted EXCEPT ![name] = None] ELSE inserted
       /\ owner' = IF Popped(r) THEN [owner EXCEPT ![name] = 0] ELSE owner

NextTwo ==
  \/ InstConstruct
  \/ InstUpdate
  \/ InstDeleteDataset

SpecTwo == Init /\ [][NextTwo]_vars

(* ------------------------ calls on the accessor ----------------------- *)

SetNames == {"train", "test", "val"}
FieldNames == {"file", "label", "name"}
Positions == 0..MaxIdx
IdxLists == UNION {[1..n -> Positions] : n \in 1..MaxLen}
Indices == {PyInt(i) : i \in Positions} \cup {PyList(l) : l \in IdxLists}

Constructed == "file" \in DOMAIN loader

\* a call on the accessor: it reads the container and changes nothing
LApply(op, args, r) ==
  /\ Constructed
  /\ lcall' = [op |-> op, args |-> args, raised |-> r.raised, ret |-> r.ret]
  /\ UNCHANGED <<data, file, last, inserted, peer, owner, turn, loader>>

\* DatasetLoader(name, task, data_dir, cache_path): the caller holds the new
\* accessor when the constructor returns, and the one it held otherwise.  The
\* name, task and data_dir are only stored, so one value of each is explored.
Open ==
  \E cache_path \in CachePaths :
    LET r == loader_init("m", "train", <<"d">>, cache_path)
    IN /\ loader' = IF r.raised = "none" THEN r.self ELSE loader
       /\ lcall' = [op |-> "__init__", args |-> [NoLArgs EXCEPT !.cache_path = cache_path],
                    raised |-> r.raised, ret |-> None]
       /\ UNCHANGED <<data, file, last, inserted, peer, owner, turn>>

LoaderGet ==
  \E set_name \in SetNames, field_name \in FieldNames, idx \in Indices \cup {PyNone} :
    LApply("get",
           [NoLArgs EXCEPT !.set_name = set_name, !.field_name = field_name, !.idx = idx],
           get(loader, set_name, field_name, idx))

LoaderObject ==
  \E set_name \in SetNames, idx \in Indices, is_value \in BOOLEAN :
    LApply("object",
           [NoLArgs EXCEPT !.set_name = set_name, !.idx = idx, !.is_value = is_value],
           object(loader, set_name, idx, is_value))

LoaderSize ==
  \E set_name \in SetNames, field_name \in FieldNames \cup {None}, full \in BOOLEAN :
    LApply("size",
           [NoLArgs EXCEPT !.set_name = set_name, !.field_name = field_name, !.full = full],
           size(loader, set_name, field_name, full))

LoaderList ==
  \E set_name \in SetNames :
    LApply("list", [NoLArgs EXCEPT !.set_name = set_name], list(loader, set_name))

LoaderObjectFieldId ==
  \E field_name \in FieldNames :
    LApply("object_field_id", [NoLArgs EXCEPT !.field_name = field_name],
           object_field_id(loader, field_name))

NextLoader ==
  \/ Open
  \/ LoaderGet
  \/ LoaderObject
  \/ LoaderSize
  \/ LoaderList
  \/ LoaderObjectFieldId

SpecLoader == Init /\ [][NextLoader]_vars

(* ============================== claims ================================ *)

\* the positions, in the document's category order, of the categories that
\* hold a record for name
Holders(d, name) == {i \in DOMAIN d.dataset : Has(d.dataset[i][2], name)}

Registered(d, name) == Holders(d, name) # {}

\* the record of name in the first category that holds one
FirstRecord(d, name) ==
  LET i == CHOOSE i \in Holders(d, name) : \A j \in Holders(d, name) : i <= j
  IN Get(d.dataset[i][2], name)

RecordUnder(d, category, name) == Get(Get(d.dataset, category), name)

IsUnder(d, category, name) == Has(d.dataset, category) /\ Has(Get(d.dataset, category), name)

\* C1 (as claimed): an upsert of a dataset already registered under the same
\* category returns, and leaves a record whose cache_files is the union of the
\* old and the new ones, the new values winning, with the new data_dir and
\* cache_dir.
C1_MergeLaw ==
  (last.op = "update" /\ IsUnder(last.pre_data, last.args.category, last.args.name)) =>
    /\ last.raised = "none"
    /\ IsUnder(data, last.args.category, last.args.name)
    /\ LET F1 == RecordUnder(last.pre_data, last.args.category, last.args.name).cache_files
           F2 == last.args.cache_info
           rec == RecordUnder(data, last.args.category, last.args.name)
       IN /\ Keys(rec.cache_files) = Keys(F1) \cup Keys(F2)
          /\ \A t \in Keys(F2) : Get(rec.cache_files, t) = Get(F2, t)
          /\ \A t \in Keys(F1) \ Keys(F2) : Get(rec.cache_files, t) = Get(F1, t)
          /\ rec.data_dir = last.args.data_dir
          /\ rec.cache_dir = last.args.cache_dir

\* C2: an upsert of a name that has no record returns; afterwards
\* get_dataset_data(name) returns exactly the data_dir, cache_dir and
\* cache_files passed, exists_dataset(name) is true and get_cache_path(name, t)
\* is cache_files[t] for every task t passed.
C2_ReadYourWrites ==
  (last.op = "update" /\ ~Registered(last.pre_data, last.args.name)) =>
    /\ last.raised = "none"
    /\ get_dataset_data(data, file, last.args.name).raised = "none"
    /\ get_dataset_data(data, file, last.args.name).ret =
         [data_dir |-> last.args.data_dir, cache_dir |-> last.args.cache_dir,
          cache_files |-> last.args.cache_info]
    /\ exists_dataset(data, file, last.args.name).ret = TRUE
    /\ \A t \in Keys(last.args.cache_info) :
         /\ get_cache_path(data, file, last.args.name, t).raised = "none"
         /\ get_cache_path(data, file, last.args.name, t).ret = Get(last.args.cache_info, t)

\* C2 witness: a new name was upserted into a category that already existed
C2_Witness ==
  /\ last.op = "update"
  /\ last.raised = "none"
  /\ ~Registered(last.pre_data, last.args.name)
  /\ Has(last.pre_data.dataset, last.args.category)
  /\ Len(last.args.cache_info) = 2

\* C3 (as claimed): every dataset name appears under at most one category.
C3_NameUnique == \A name \in Names : Cardinality(Holders(data, name)) <= 1

\* C4 (as claimed): get_category(name) is the category of the most recent
\* upsert of name that has not been removed since, and the not-found sentinel
\* for a name with no such upsert.
C4_CategoryResolution == \A name \in Names : get_category(data, name) = inserted[name]

\* C5 (as claimed): delete_dataset of a name that has no record returns and
\* leaves the document and the file as they were.
C5_IdempotentRemove ==
  (last.op = "delete_dataset" /\ ~Registered(last.pre_data, last.args.name)) =>
    /\ last.raised = "none"
    /\ data = last.pre_data
    /\ file = last.pre_file

\* C6 (as claimed): when delete_dataset of a registered name returns, the
\* name has no record in the document nor in the file: exists_dataset is
\* false, get_category is the sentinel and get_dataset_data raises.
C6_RemovePostcondition ==
  (/\ last.op = "delete_dataset"
   /\ Registered(last.pre_data, last.args.name)
   /\ last.raised = "none") =>
    /\ exists_dataset(data, file, last.args.name).ret = FALSE
    /\ get_category(data, last.args.name) = None
    /\ get_dataset_data(data, file, last.args.name).raised = "Exception"
    /\ file.exists
    /\ ~Registered(read_data_cache(file), last.args.name)

\* what exists_dataset and exists are claimed to return on document d
ExpectExistsDataset(d, name) == Registered(d, name)

ExpectExists(d, name, task) ==
  Registered(d, name) /\ task \in Keys(FirstRecord(d, name).cache_files)

\* C7: on every reachable document and for every name and task,
\* exists_dataset and exists return a boolean and never raise; exists_dataset
\* is true exactly when some category holds a record for name, exists exactly
\* when there is such a record and task is a key of the cache_files of the one
\* get_category selects; and a call made on the instance ends that way.
C7_MembershipNeverRaises ==
  /\ \A name \in Names :
       /\ exists_dataset(data, file, name).raised = "none"
       /\ exists_dataset(data, file, name).ret \in BOOLEAN
       /\ exists_dataset(data, file, name).ret = ExpectExistsDataset(data, name)
       /\ \A task \in Tasks :
            /\ exists(data, file, name, task).raised = "none"
            /\ exists(data, file, name, task).ret \in BOOLEAN
            /\ exists(data, file, name, task).ret = ExpectExists(data, name, task)
  /\ last.op = "exists_dataset" =>
       /\ last.raised = "none"
       /\ last.ret = ExpectExistsDataset(last.pre_data, last.args.name)
  /\ last.op = "exists" =>
       /\ last.raised = "none"
       /\ last.ret = ExpectExists(last.pre_data, last.args.name, last.args.task)

\* C7 witness: exists returned false for a task of a dataset that has no
\* record, on a registry that holds another dataset with that task
C7_Witness ==
  /\ last.op = "exists"
  /\ last.raised = "none"
  /\ last.ret = FALSE
  /\ ~Registered(data, last.args.name)
  /\ \E other \in Names : exists(data, file, other, last.args.task).ret = TRUE

\* what get_dataset_data and get_cache_path are claimed to do on document d:
\* <<the exception, the value returned or the exception's argument>>
ExpectDatasetData(d, name) ==
  IF Registered(d, name) THEN <<"none", FirstRecord(d, name)>>
  ELSE <<"Exception", <<"Dataset ", name, " does not exist in the cache file.">> >>

ExpectCachePath(d, name, task) ==
  IF ~Registered(d, name)
    THEN <<"Exception", <<"Dataset ", name, " does not exist in the cache file.">> >>
  ELSE IF task \notin Keys(FirstRecord(d, name).cache_files) THEN <<"KeyError", None>>
  ELSE <<"none", Get(FirstRecord(d, name).cache_files, task)>>

Outcome(r) == <<r.raised, r.ret>>

\* C8: get_dataset_data(name) raises the Exception naming the dataset exactly
\* when name has no record and returns the record otherwise; get_cache_path
\* raises that Exception when the dataset is absent and a KeyError when the
\* dataset exists without the task; neither changes the document or the file.
C8_RequiredLookups ==
  /\ \A name \in Names :
       /\ Outcome(get_dataset_data(data, file, name)) = ExpectDatasetData(data, name)
       /\ \A task \in Tasks :
            Outcome(get_cache_path(data, file, name, task)) =
              ExpectCachePath(data, name, task)
  /\ last.op = "get_dataset_data" =>
       /\ <<last.raised, last.ret>> = ExpectDatasetData(last.pre_data, last.args.name)
       /\ data = last.pre_data /\ file = last.pre_file
  /\ last.op = "get_cache_path" =>
       /\ <<last.raised, last.ret>> =
            ExpectCachePath(last.pre_data, last.args.name, last.args.task)
       /\ data = last.pre_data /\ file = last.pre_file

\* C8 witness: get_cache_path raised a KeyError for a registered dataset
\* while get_dataset_data raises the Exception for another name
C8_Witness ==
  /\ last.op = "get_cache_path"
  /\ last.raised = "KeyError"
  /\ Registered(data, last.args.name)
  /\ \E other \in Names : get_dataset_data(data, file, other).raised = "Exception"

IsPrefix(p, q) == Len(p) <= Len(q) /\ SubSeq(q, 1, Len(p)) = p

HasSegment(p, root, seg) == \E i \in (Len(root) + 1)..Len(p) : p[i] = seg

ExpectStoragePaths(d, r, name) ==
  /\ r.raised = "none"
  /\ IF Registered(d, name)
       THEN r.ret = [cache_dir |-> FirstRecord(d, name).cache_dir,
                     data_dir |-> FirstRecord(d, name).data_dir]
       ELSE /\ IsPrefix(d.info.default_cache_dir, r.ret.cache_dir)
            /\ HasSegment(r.ret.cache_dir, d.info.default_cache_dir, name)
            /\ IsPrefix(d.info.default_data_dir, r.ret.data_dir)
            /\ HasSegment(r.ret.data_dir, d.info.default_data_dir, name)

\* C9: get_dataset_storage_paths(name) returns, for a name with no record, a
\* cache_dir and a data_dir that start with the default directories of the
\* document's info and hold name as a later segment, and for a registered
\* name the cache_dir and data_dir of its record; the call leaves the document
\* and the file as they were.
C9_DefaultPathSynthesis ==
  /\ \A name \in Names :
       ExpectStoragePaths(data, get_dataset_storage_paths(data, file, name), name)
  /\ last.op = "get_dataset_storage_paths" =>
       /\ ExpectStoragePaths(last.pre_data, last, last.args.name)
       /\ data = last.pre_data /\ file = last.pre_file

\* C9 witness: the paths of an unregistered name were asked of a registry
\* that holds a dataset
C9_Witness ==
  /\ last.op = "get_dataset_storage_paths"
  /\ ~Registered(data, last.args.name)
  /\ last.ret.cache_dir = <<"home", "user", "dbcollection", last.args.name, "cache">>
  /\ \E other \in Names : Registered(data, other)

\* the fresh template: the default directories under the home directory and
\* no dataset
Template ==
  [info |-> [default_cache_dir |-> <<"home", "user", "dbcollection">>,
             default_data_dir |-> <<"home", "user", "dbcollection">>],
   dataset |-> <<>>]

\* C10: persist(load()) leaves the decoded content of an existing file as it
\* was; load() after persist(doc) returns doc, for every reachable document;
\* load() of an absent file returns the fresh template.
C10_RoundTrip ==
  /\ (last.op = "persist_load" /\ last.pre_file.exists) =>
       /\ file.exists
       /\ json_load(file.content) = json_load(last.pre_file.content)
  /\ read_data_cache(write_data_cache(data, file).file) = data
  /\ last.op = "read_data_cache" =>
       last.ret = IF last.pre_file.exists THEN json_load(last.pre_file.content)
                  ELSE Template
  /\ ~file.exists => read_data_cache(file) = Template

\* C10 witness: persist(load()) ran on a file that holds a dataset and a
\* category left empty by a removal
C10_Witness ==
  /\ last.op = "persist_load"
  /\ last.pre_file.exists
  /\ \E i \in DOMAIN last.ret.dataset : last.ret.dataset[i][2] = <<>>
  /\ \E name \in Names : Registered(last.ret, name)

\* load() of an absent file was called
C10_AbsentReached == last.op = "read_data_cache" /\ ~last.pre_file.exists

\* C13: the decoded content of the registry file is the document the
\* instance holds, after construction and after every call: every mutation
\* ends with a full write of the document.
C13_MemoryDiskAgreement ==
  /\ file.exists
  /\ json_load(file.content) = data

\* C13 witness: a removal returned on a registry that still holds a dataset
C13_Witness ==
  /\ last.op = "delete_dataset"
  /\ last.raised = "none"
  /\ Registered(last.pre_data, last.args.name)
  /\ data # last.pre_data
  /\ \E name \in Names : Registered(data, name)

\* the os.remove events of the last call, by position in its trace
Removals(t) == {i \in DOMAIN t : t[i].ev = "os.remove"}

\* C14: in delete_dataset, an os.remove that fails with ENOENT is swallowed
\* and the call goes on (the record is popped and the file written after the
\* cache directory, the call returns after the data directory), while any
\* other failure of either removal leaves delete_dataset as an OSError, with
\* nothing done after it.
C14_BestEffortRemoval ==
  last.op = "delete_dataset" =>
    \A i \in Removals(last.trace) :
      /\ last.trace[i].res = "EOTHER" => (last.raised = "OSError" /\ i = Len(last.trace))
      /\ last.trace[i].res \in {"ok", "ENOENT"} =>
           IF i = 1
             THEN /\ Len(last.trace) >= 3
                  /\ last.trace[2].ev = "pop"
                  /\ last.trace[3].ev = "write"
                  /\ ~IsUnder(data, last.trace[2].path[1], last.args.name)
             ELSE last.raised = "none"

\* C14 witness: the cache directory did not exist, the removal went on and
\* failed on the data directory
C14_Witness ==
  /\ last.op = "delete_dataset"
  /\ last.args.delete_data
  /\ Len(last.trace) = 4
  /\ last.trace[1].res = "ENOENT"
  /\ last.trace[4].res = "EOTHER"
  /\ last.raised = "OSError"

\* C15 (as claimed): whenever delete_dataset raises, the document and the
\* file are exactly what they were before the call.
C15_AllOrNothing ==
  (last.op = "delete_dataset" /\ last.raised # "none") =>
    /\ data = last.pre_data
    /\ file = last.pre_file

\* C15 (amended): when delete_dataset raises before it has popped the record
\* (a KeyError of the lookup, an OSError of the cache directory's removal) the
\* document and the file are what they were; when it raises after (an OSError
\* of the data directory's removal, delete_data set) the record is already
\* popped from the document and the file rewritten without it.
C15_AllOrNothingUntilPopped ==
  (last.op = "delete_dataset" /\ last.raised # "none") =>
    IF Popped(last)
      THEN /\ last.args.delete_data
           /\ last.raised = "OSError"
           /\ last.trace[Len(last.trace)].ev = "os.remove"
           /\ last.trace[Len(last.trace)].path =
                FirstRecord(last.pre_data, last.args.name).data_dir
           /\ LET cat == get_category(last.pre_data, last.args.name)
              IN data = [last.pre_data EXCEPT !.dataset =
                           Put(@, cat, Pop(Get(@, cat), last.args.name))]
           /\ json_load(file.content) = data
      ELSE /\ data = last.pre_data
           /\ file = last.pre_file

\* C15 witness: delete_dataset raised on the data directory of a registered
\* dataset
C15_Witness ==
  /\ last.op = "delete_dataset"
  /\ last.raised = "OSError"
  /\ Popped(last)
  /\ Registered(last.pre_data, last.args.name)

\* C16: delete_dataset removes, as data directory, the data_dir the record of
\* name held when it was called, only with delete_data set, and only after
\* the record was popped and the file written; with delete_data set it does
\* so whenever the record was popped.
C16_RemoveStepOrdering ==
  (last.op = "delete_dataset" /\ Registered(last.pre_data, last.args.name)) =>
    LET rec == FirstRecord(last.pre_data, last.args.name)
        t == last.trace
    IN /\ \A i \in Removals(t) :
            IF i = 1 THEN t[i].path = rec.cache_dir
            ELSE /\ last.args.delete_data
                 /\ t[i].path = rec.data_dir
                 /\ \E j \in 1..(i - 1) : \E k \in (j + 1)..(i - 1) :
                      t[j].ev = "pop" /\ t[k].ev = "write"
       /\ (last.args.delete_data /\ Popped(last)) =>
            \E i \in Removals(t) : i > 1 /\ t[i].path = rec.data_dir
       /\ ~last.args.delete_data => Removals(t) \subseteq {1}

\* C16 witness: a dataset registered with its own data_dir was removed with
\* delete_data set
C16_Witness ==
  /\ last.op = "delete_dataset"
  /\ last.args.delete_data
  /\ last.raised = "none"
  /\ Len(last.trace) = 4
  /\ last.trace[4].path = <<"d2">>

\* the records of the datasets other than name, by category
Others(d, name) ==
  [c \in Keys(d.dataset) |->
     [o \in Keys(Get(d.dataset, c)) \ {name} |-> Get(Get(d.dataset, c), o)]]

SameOthers(d1, d2, name) ==
  /\ d1.info = d2.info
  /\ \A c \in Keys(d1.dataset) : Has(d2.dataset, c) /\ Others(d1, name)[c] = Others(d2, name)[c]
  /\ \A c \in Keys(d2.dataset) \ Keys(d1.dataset) : DOMAIN Others(d2, name)[c] = {}

\* C19: update and delete_dataset of name leave the record of every other
\* dataset, in every category, and the info defaults as they were, in the
\* document and in the file, whether they return or raise and also when
\* update adds a category.
C19_MutationFrame ==
  last.op \in {"update", "delete_dataset"} =>
    /\ SameOthers(last.pre_data, data, last.args.name)
    /\ file.exists
    /\ SameOthers(json_load(last.pre_file.content), json_load(file.content), last.args.name)

\* C19 witness: update added a category to a registry that held another
\* dataset under another category
C19_Witness ==
  /\ last.op = "update"
  /\ last.raised = "none"
  /\ ~Has(last.pre_data.dataset, last.args.category)
  /\ \E other \in Names \ {last.args.name} : Registered(last.pre_data, other)

\* C20: in every reachable state, for every name and task, exists_dataset is
\* true exactly when get_dataset_data returns, and exists is true exactly
\* when get_cache_path returns; what they return is read from the record
\* under the category get_category gives.
C20_LookupsAgree ==
  \A name \in Names :
    /\ exists_dataset(data, file, name).ret = (get_dataset_data(data, file, name).raised = "none")
    /\ get_dataset_data(data, file, name).raised = "none" =>
         get_dataset_data(data, file, name).ret =
           RecordUnder(data, get_category(data, name), name)
    /\ \A task \in Tasks :
         /\ exists(data, file, name, task).ret =
              (get_cache_path(data, file, name, task).raised = "none")
         /\ get_cache_path(data, file, name, task).raised = "none" =>
              get_cache_path(data, file, name, task).ret =
                Get(RecordUnder(data, get_category(data, name), name).cache_files, task)

\* C20 witness: exists returned true for a name held under two categories
\* whose records differ in that task
C20_Witness ==
  /\ last.op = "exists"
  /\ last.ret = TRUE
  /\ Cardinality(Holders(data, last.args.name)) = 2
  /\ \E i \in Holders(data, last.args.name) :
       ~Has(Get(data.dataset[i][2], last.args.name).cache_files, last.args.task)

RecordInFile(f, category, name) ==
  /\ f.exists
  /\ IsUnder(json_load(f.content), category, name)

\* C17 (as claimed): with two instances on one file whose calls do not
\* overlap, a record upserted through one instance is still in the file, as
\* it was, after the other instance has upserted or removed another dataset.
C17_PeerRecordSurvives ==
  (/\ last.op \in {"update", "delete_dataset"}
   /\ last.inst \in {1, 2}
   /\ last.raised = "none") =>
    \A name \in Names \ {last.args.name} :
      (/\ owner[name] \in {1, 2} \ {last.inst}
       /\ RecordInFile(last.pre_file, inserted[name], name)) =>
        /\ RecordInFile(file, inserted[name], name)
        /\ RecordUnder(json_load(file.content), inserted[name], name) =
             RecordUnder(json_load(last.pre_file.content), inserted[name], name)

(* ----------------------------- the accessor --------------------------- *)

\* the dataset of a field of a set, in the container the accessor is bound to
FieldOf(set_name, field_name) == loader.file[<<"default", set_name, field_name>>]

\* the id vector of object i of a set
ObjectIds(set_name, i) == FieldOf(set_name, "object_ids").value[i + 1]

\* the tuple of object i of a set: for each composite field, in the order of
\* the list, the value of that field of the set at the id of the object
ExpectObject(set_name, i) ==
  [k \in DOMAIN loader.object_fields |->
     FieldOf(set_name, loader.object_fields[k]).value[ObjectIds(set_name, i)[k] + 1]]

\* the positions a call asked for, in the order it gave them
Requested(idx) == IF idx.kind = "list" THEN idx.items ELSE <<idx.int>>

\* C11: when object(set, idx, is_value=True) returns, a request for one
\* position (a position or a list of one) gets the tuple of that object
\* itself, and a list of two or more positions gets a sequence of exactly as
\* many tuples, the k-th being that of the k-th position of the list.
C11_ReturnShape ==
  (lcall.op = "object" /\ lcall.args.is_value /\ lcall.raised = "none") =>
    LET L == Requested(lcall.args.idx)
        set_name == lcall.args.set_name
    IN IF Len(L) = 1
         THEN /\ Len(lcall.ret) = Len(loader.object_fields)
              /\ lcall.ret = ExpectObject(set_name, L[1])
       ELSE /\ Len(lcall.ret) = Len(L)
            /\ \A k \in DOMAIN L : lcall.ret[k] = ExpectObject(set_name, L[k])

\* C11 witness: a list of two positions, not in increasing order, has been
\* resolved
C11_Witness ==
  /\ lcall.op = "object"
  /\ lcall.args.is_value
  /\ lcall.args.set_name = "train"
  /\ lcall.args.idx = PyList(<<1, 0>>)
  /\ lcall.raised = "none"
  /\ Len(lcall.ret) = 2

\* the composite field-name list of the accessor
FieldList == IF "object_fields" \in DOMAIN loader THEN loader.object_fields ELSE <<>>

\* C12: on every constructed accessor, object_field_id(f) returns the position
\* of f in the composite field-name list when f is in it, and raises the
\* "field not found" ValueError, nothing else, when f is not.
C12_FieldPosition ==
  lcall.op = "object_field_id" =>
    IF \E k \in DOMAIN FieldList : FieldList[k] = lcall.args.field_name
      THEN /\ lcall.raised = "none"
           /\ FieldList[lcall.ret + 1] = lcall.args.field_name
    ELSE lcall.raised = "ValueError"

\* object i of a set can be resolved: the set has it and each of its ids is a
\* position of the field it refers to
Resolvable(set_name, i) ==
  /\ "object_fields" \in DOMAIN loader
  /\ <<"default", set_name, "object_ids">> \in DOMAIN loader.file
  /\ i \in 0..(FieldOf(set_name, "object_ids").shape[1] - 1)
  /\ \A k \in DOMAIN loader.object_fields :
       /\ <<"default", set_name, loader.object_fields[k]>> \in DOMAIN loader.file
       /\ ObjectIds(set_name, i)[k] \in
            0..(FieldOf(set_name, loader.object_fields[k]).shape[1] - 1)

\* C18: on an accessor that holds the composite fields f_0..f_{n-1},
\* object(set, i, is_value=True) returns, for an object i whose ids are
\* positions of their fields, the tuple whose k-th element is the value of
\* field f_k of that set at position object_ids[i][k]; with is_value false a
\* call that returns has returned object_ids[i] for a position i, and one id
\* vector per position, in order, for a list.
C18_ObjectReconstruction ==
  lcall.op = "object" =>
    LET set_name == lcall.args.set_name
        idx == lcall.args.idx
    IN /\ (lcall.args.is_value /\ idx.kind = "int" /\ Resolvable(set_name, idx.int)) =>
            lcall.raised = "none"
       /\ (lcall.args.is_value /\ idx.kind = "int" /\ lcall.raised = "none") =>
            /\ Resolvable(set_name, idx.int)
            /\ Len(lcall.ret) = Len(loader.object_fields)
            /\ \A k \in DOMAIN loader.object_fields :
                 lcall.ret[k] = FieldOf(set_name, loader.object_fields[k]).value[
                                  ObjectIds(set_name, idx.int)[k] + 1]
       /\ (~lcall.args.is_value /\ lcall.raised = "none") =>
            IF idx.kind = "int" THEN lcall.ret = ObjectIds(set_name, idx.int)
            ELSE /\ Len(lcall.ret) = Len(idx.items)
                 /\ \A k \in DOMAIN idx.items :
                      lcall.ret[k] = ObjectIds(set_name, idx.items[k])

\* C18 witness: an object whose two ids differ has been resolved
C18_Witness ==
  /\ lcall.op = "object"
  /\ lcall.args.is_value
  /\ lcall.args.set_name = "test"
  /\ lcall.args.idx = PyInt(0)
  /\ lcall.raised = "none"
  /\ lcall.ret = <<"g1", "dog">>

====
